---- MODULE Spec2Model ----
(***************************************************************************)
(* A model of src/app.js: the folder-name composer (normalizers and        *)
(* composeName), the dataset cache over localStorage (getCache, setCache), *)
(* the two dataset pipelines (fetchCountries, fetchLanguages) and          *)
(* loadDatasets.                                                           *)
(*                                                                         *)
(* JavaScript values are tagged records: Undef, Null, Bool(b), Num(n),     *)
(* Str(s) with s a sequence of one-character strings, Arr(l) with l a      *)
(* sequence of values, and objects as records with t = "obj".  A thrown    *)
(* exception is the value Throw.                                           *)
(***************************************************************************)
EXTENDS Integers, Sequences, FiniteSets, TLC

VARIABLES
    \* ---- the form fields read by the preview getter (lines 119-124)
    courseName, langInput, countryInput, eventInput, includeDate, dateInput,
    \* ---- the last evaluation of the preview getter (lines 160-169):
    \* phase "editing" before it ran, "rendered" after
    phase, preview, previewTokens,
    \* ---- Date.now(), in ms relative to the model's time origin
    now, ticks,
    \* ---- localStorage: key -> stored text
    store,
    \* ---- the running invocation of each dataset pipeline: dataset -> record
    \* of its position (pc), the return statement it took (ret), its return
    \* value (result) and what it did on the way
    call,
    \* ---- Alpine component fields langs / countries and the position of
    \* loadDatasets
    langs, countries, loadPc,
    \* ---- a transform on its own: the payload of each pipeline (rows, lines
    \* 53, 72) and the list computed from it (data, lines 54-57, 73-83), Undef
    \* before it is computed
    payload, produced,
    \* ---- pipelines invoked again and again: the invocations so far, oldest
    \* first, each with its dataset, its call record and what the environment
    \* gave it; and the store as it was before the first of them
    runs, store0,
    \* ---- a normalizer on its own: what normLang / normCountry returned for
    \* langInput / countryInput, Undef before the call
    normed,
    \* ---- Alpine component fields of the two dropdowns
    langOpen, langActiveIdx, langQuery,
    countryOpen, countryActiveIdx, countryQuery,
    \* ---- localStorage item 'folderNameState' (stored text), and the six form
    \* fields as they were when saveState last completed (Undef: never)
    stateItem, saved,
    \* ---- the handler that ran last: its name (h), the field it changed
    \* or whether getItem threw (key), and whether it raised
    event

formVars  == <<courseName, langInput, countryInput, eventInput, includeDate, dateInput>>
viewVars  == <<phase, preview, previewTokens>>
clockVars == <<now, ticks>>
appVars   == <<langs, countries, loadPc>>
fnVars    == <<payload, produced>>
runVars   == <<runs, store0>>
uiVars    == <<langOpen, langActiveIdx, langQuery,
               countryOpen, countryActiveIdx, countryQuery>>
persistVars == <<stateItem, saved>>
sideVars  == <<normed, uiVars, persistVars, event>>
auxVars   == <<fnVars, runVars, sideVars>>
vars == <<formVars, viewVars, clockVars, store, call, appVars, auxVars>>

(***************************************************************************)
(* JavaScript values                                                       *)
(***************************************************************************)
Undef   == [t |-> "undefined"]
Null    == [t |-> "null"]
Throw   == [t |-> "throw"]
Bool(b) == [t |-> "bool", b |-> b]
Num(n)  == [t |-> "num", n |-> n]
Str(s)  == [t |-> "str", s |-> s]
Arr(l)  == [t |-> "arr", l |-> l]

\* ToBoolean: the falsy values are undefined, null, false, 0 and ''.
Truthy(v) ==
    CASE v.t = "undefined" -> FALSE
      [] v.t = "null"      -> FALSE
      [] v.t = "bool"      -> v.b
      [] v.t = "num"       -> v.n /= 0
      [] v.t = "str"       -> v.s /= <<>>
      [] OTHER             -> TRUE

\* x || y
OrElse(x, y) == IF Truthy(x) THEN x ELSE y

(***************************************************************************)
(* Strings: sequences of characters                                        *)
(***************************************************************************)
Lowers == <<"a","b","c","d","e","f","g","h","i","j","k","l","m",
            "n","o","p","q","r","s","t","u","v","w","x","y","z">>
Uppers == <<"A","B","C","D","E","F","G","H","I","J","K","L","M",
            "N","O","P","Q","R","S","T","U","V","W","X","Y","Z">>
LowerSet == {Lowers[i] : i \in DOMAIN Lowers}
UpperSet == {Uppers[i] : i \in DOMAIN Uppers}

\* the characters \s matches and trim() strips, among those the model uses
IsWs(c) == c \in {" ", "\t"}

\* the position of a letter in the alphabet
LetterIndex ==
    [c \in LowerSet \cup UpperSet |->
        CHOOSE i \in DOMAIN Lowers : Lowers[i] = c \/ Uppers[i] = c]

toLowerChar(c) == IF c \in UpperSet THEN Lowers[LetterIndex[c]] ELSE c
toUpperChar(c) == IF c \in LowerSet THEN Uppers[LetterIndex[c]] ELSE c
toLowerCase(s) == [i \in 1..Len(s) |-> toLowerChar(s[i])]
toUpperCase(s) == [i \in 1..Len(s) |-> toUpperChar(s[i])]

RECURSIVE trimStart(_)
trimStart(s) ==
    IF s = <<>> THEN s
    ELSE IF IsWs(Head(s)) THEN trimStart(Tail(s)) ELSE s

RECURSIVE trimEnd(_)
trimEnd(s) ==
    IF s = <<>> THEN s
    ELSE IF IsWs(s[Len(s)]) THEN trimEnd(SubSeq(s, 1, Len(s) - 1)) ELSE s

trim(s) == trimEnd(trimStart(s))

\* s.replace(/\s+/g, ' '): every maximal run of whitespace becomes one space
RECURSIVE collapseWs(_)
collapseWs(s) ==
    IF s = <<>> THEN s
    ELSE IF IsWs(Head(s)) THEN <<" ">> \o collapseWs(trimStart(s))
    ELSE <<Head(s)>> \o collapseWs(Tail(s))

\* s.replace(/-/g, '')
removeHyphens(s) == SelectSeq(s, LAMBDA c : c /= "-")

\* parts.join(sep), parts a sequence of strings
RECURSIVE join(_, _)
join(parts, sep) ==
    IF parts = <<>> THEN <<>>
    ELSE IF Len(parts) = 1 THEN parts[1]
    ELSE parts[1] \o sep \o join(Tail(parts), sep)

\* /^[a-z]{3}$/.test(x) and /^[A-Z]{3}$/.test(x)
isLang3(x)    == Len(x) = 3 /\ \A i \in 1..Len(x) : x[i] \in LowerSet
isCountry3(x) == Len(x) = 3 /\ \A i \in 1..Len(x) : x[i] \in UpperSet

(***************************************************************************)
(* Normalizers (lines 92-95).  Each takes a JavaScript value and returns   *)
(* Str(..), or Throw when the value is truthy and has no string method     *)
(* (a TypeError: (5).trim is not a function).                              *)
(***************************************************************************)
clean(v) ==
    LET x == OrElse(v, Str(<<>>))
    IN  IF x.t /= "str" THEN Throw ELSE Str(collapseWs(trim(x.s)))

\* normLang without its trim()
normLangNoTrim(v) ==
    LET x == OrElse(v, Str(<<>>))
    IN  IF x.t /= "str" THEN Throw
        ELSE LET y == toLowerCase(x.s)
             IN  IF isLang3(y) THEN Str(y) ELSE Str(<<>>)

normLang(v) ==
    LET x == OrElse(v, Str(<<>>))
    IN  IF x.t /= "str" THEN Throw
        ELSE LET y == toLowerCase(trim(x.s))
             IN  IF isLang3(y) THEN Str(y) ELSE Str(<<>>)

normCountry(v) ==
    LET x == OrElse(v, Str(<<>>))
    IN  IF x.t /= "str" THEN Throw
        ELSE LET y == toUpperCase(trim(x.s))
             IN  IF isCountry3(y) THEN Str(y) ELSE Str(<<>>)

yyyymmdd(v) ==
    LET x == OrElse(v, Str(<<>>))
    IN  IF x.t /= "str" THEN Throw ELSE Str(removeHyphens(x.s))

(***************************************************************************)
(* Composer (lines 98-113)                                                 *)
(***************************************************************************)
\* tokens.push(x) guarded by if (x)
pushIf(tokens, x) == IF x /= <<>> THEN Append(tokens, x) ELSE tokens

\* line 103: [normLang(lang), normCountry(country)].filter(Boolean).join('-')
localeUnfiltered(l, c) == join(<<l, c>>, <<"-">>)

localeToken(l, c) == join(SelectSeq(<<l, c>>, LAMBDA x : x /= <<>>), <<"-">>)

\* the token list composeName builds; its arguments are the normalized strings
composeUnguarded(n, loc, ev, dt) == <<n, loc, ev, dt>>

composeTokens(n, loc, ev, dt) ==
    pushIf(pushIf(pushIf(pushIf(<<>>, n), loc), ev), dt)

\* composeName(input): [threw, tokens, out]
composeName(input) ==
    LET n  == clean(input.name)
        l  == normLang(input.lang)
        c  == normCountry(input.country)
        ev == clean(input.event)
        dt == IF Truthy(input.includeDate) THEN yyyymmdd(input.date) ELSE Str(<<>>)
    IN  IF Throw \in {n, l, c, ev, dt}
        THEN [threw |-> TRUE, tokens |-> <<>>, out |-> <<>>]
        ELSE LET tokens == composeTokens(n.s, localeToken(l.s, c.s), ev.s, dt.s)
             IN  [threw |-> FALSE, tokens |-> tokens,
                  out |-> join(tokens, <<" ", "-", " ">>)]

\* the preview getter's argument (lines 161-168)
previewInput ==
    [name |-> courseName, lang |-> langInput, country |-> countryInput,
     event |-> eventInput, includeDate |-> includeDate, date |-> dateInput]

(***************************************************************************)
(* Reference data (lines 1-26).  Ref(code, name) is a ReferenceEntry.      *)
(***************************************************************************)
Ref(code, name) == [t |-> "obj", code |-> code, name |-> name]

languagesStub == Arr(<<
    Ref(Str(<<"e","n","g">>), Str(<<"E","n","g","l","i","s","h">>)),
    Ref(Str(<<"f","r","a">>), Str(<<"F","r","e","n","c","h">>)),
    Ref(Str(<<"s","p","a">>), Str(<<"S","p","a","n","i","s","h">>)),
    Ref(Str(<<"d","e","u">>), Str(<<"G","e","r","m","a","n">>)),
    Ref(Str(<<"p","o","r">>), Str(<<"P","o","r","t","u","g","u","e","s","e">>)),
    Ref(Str(<<"i","t","a">>), Str(<<"I","t","a","l","i","a","n">>)),
    Ref(Str(<<"z","h","o">>), Str(<<"C","h","i","n","e","s","e">>)),
    Ref(Str(<<"j","p","n">>), Str(<<"J","a","p","a","n","e","s","e">>)),
    Ref(Str(<<"r","u","s">>), Str(<<"R","u","s","s","i","a","n">>)),
    Ref(Str(<<"a","r","a">>), Str(<<"A","r","a","b","i","c">>))
>>)

countriesStub == Arr(<<
    Ref(Str(<<"U","S","A">>), Str(<<"U","n","i","t","e","d"," ","S","t","a","t","e","s">>)),
    Ref(Str(<<"F","R","A">>), Str(<<"F","r","a","n","c","e">>)),
    Ref(Str(<<"G","B","R">>), Str(<<"U","n","i","t","e","d"," ","K","i","n","g","d","o","m">>)),
    Ref(Str(<<"D","E","U">>), Str(<<"G","e","r","m","a","n","y">>)),
    Ref(Str(<<"E","S","P">>), Str(<<"S","p","a","i","n">>)),
    Ref(Str(<<"I","T","A">>), Str(<<"I","t","a","l","y">>)),
    Ref(Str(<<"B","R","A">>), Str(<<"B","r","a","z","i","l">>)),
    Ref(Str(<<"C","A","N">>), Str(<<"C","a","n","a","d","a">>)),
    Ref(Str(<<"J","P","N">>), Str(<<"J","a","p","a","n">>)),
    Ref(Str(<<"A","U","S">>), Str(<<"A","u","s","t","r","a","l","i","a">>))
>>)

Datasets == {"countries", "languages"}

\* both pipelines on one key
cacheKeyShared(d) == "countries.v1"

\* the key each pipeline passes to getCache and setCache (lines 48, 58, 67, 84)
cacheKey(d) == IF d = "countries" THEN "countries.v1" ELSE "languages.v1"

CacheKeys == {cacheKey(d) : d \in Datasets}

(***************************************************************************)
(* Cache helpers (lines 29-44).  A stored text is NoItem (getItem returns  *)
(* null), Garbage (a text JSON.parse rejects) or Json(v), the JSON text of *)
(* the value v.  A cache entry is the object Entry(ts, data).              *)
(***************************************************************************)
TTL == 7 * 24 * 60 * 60 * 1000

NoItem  == [k |-> "none"]
Garbage == [k |-> "garbage"]
Json(v) == [k |-> "json", v |-> v]

Entry(ts, data) == [t |-> "obj", ts |-> ts, data |-> data]

\* JSON.stringify(v): an object property whose value is undefined is left out,
\* which a later read of that property cannot tell from undefined
stringify(v) == Json(v)

\* JSON.parse(localStorage.getItem(key)): null (no item) parses to null
parse(item) ==
    CASE item.k = "none"    -> Null
      [] item.k = "garbage" -> Throw
      [] OTHER              -> item.v

\* x.ts and x.data: undefined when x has no such property
tsOf(x)   == IF x.t = "obj" /\ "ts" \in DOMAIN x THEN x.ts ELSE Undef
dataOf(x) == IF x.t = "obj" /\ "data" \in DOMAIN x THEN x.data ELSE Undef

\* Date.now() - x.ts > TTL at time t.  A ts that is no number makes the
\* difference NaN, and NaN > TTL is false.
isExpiredInclusive(ts, t) == ts.t = "num" /\ t - ts.n >= TTL

isExpired(ts, t) == ts.t = "num" /\ t - ts.n > TTL

\* the body of getCache's try block: the value returned, or Throw
getCacheTry(item, readFails, t) ==
    IF readFails THEN Throw
    ELSE LET x == parse(item)
         IN  IF x = Throw THEN Throw
             ELSE IF ~Truthy(x) THEN Null
             ELSE IF isExpired(tsOf(x), t) THEN Null
             ELSE dataOf(x)

\* getCache without its catch clause
getCacheUncaught(item, readFails, t) == getCacheTry(item, readFails, t)

\* getCache(key) at time t on the stored text item; readFails: getItem throws
getCache(item, readFails, t) ==
    LET r == getCacheTry(item, readFails, t)
    IN  IF r = Throw THEN Null ELSE r

\* setCache(key, data) at time t: the text stored under key, or Throw when
\* setItem throws (the store is then unchanged)
setCacheBare(data, writeFails, t) ==
    IF writeFails THEN Throw ELSE stringify(data)

setCache(data, writeFails, t) ==
    IF writeFails THEN Throw ELSE stringify(Entry(Num(t), data))

(***************************************************************************)
(* a.name.localeCompare(b.name) and the sort by name (lines 57, 83).       *)
(* Names are compared letter by letter on the base letters; names that     *)
(* differ only in case order lowercase first.  Array.prototype.sort is     *)
(* stable.  The names the model sorts are strings of letters and spaces.   *)
(***************************************************************************)
baseRank(c) == IF c \in DOMAIN LetterIndex THEN LetterIndex[c] ELSE 0

caseRank(c) == IF c \in UpperSet THEN 1 ELSE 0

RECURSIVE cmpRanks(_, _)
cmpRanks(a, b) ==
    IF a = <<>> THEN (IF b = <<>> THEN 0 ELSE -1)
    ELSE IF b = <<>> THEN 1
    ELSE IF Head(a) < Head(b) THEN -1
    ELSE IF Head(a) > Head(b) THEN 1
    ELSE cmpRanks(Tail(a), Tail(b))

localeCompare(a, b) ==
    LET p == cmpRanks([i \in 1..Len(a) |-> baseRank(a[i])],
                      [i \in 1..Len(b) |-> baseRank(b[i])])
    IN  IF p /= 0 THEN p
        ELSE cmpRanks([i \in 1..Len(a) |-> caseRank(a[i])],
                      [i \in 1..Len(b) |-> caseRank(b[i])])

\* x goes before the first entry that compares greater than it
insertByName(sorted, x) ==
    LET k == Cardinality({i \in 1..Len(sorted) :
                             localeCompare(sorted[i].name.s, x.name.s) <= 0})
    IN  SubSeq(sorted, 1, k) \o <<x>> \o SubSeq(sorted, k + 1, Len(sorted))

RECURSIVE sortByName(_)
sortByName(l) ==
    IF l = <<>> THEN <<>>
    ELSE insertByName(sortByName(SubSeq(l, 1, Len(l) - 1)), l[Len(l)])

(***************************************************************************)
(* The countries transform (lines 54-57) on the parsed payload rows: the   *)
(* list produced, or Throw (rows has no filter method; cca3 is truthy and  *)
(* has no toUpperCase method).                                             *)
(***************************************************************************)
\* r?.cca3 and r?.name?.common
rowCca3(r) == IF r.t = "obj" /\ "cca3" \in DOMAIN r THEN r.cca3 ELSE Undef
rowCommon(r) ==
    LET n == IF r.t = "obj" /\ "name" \in DOMAIN r THEN r.name ELSE Undef
    IN  IF n.t = "obj" /\ "common" \in DOMAIN n THEN n.common ELSE Undef

keepCountryRow(r) == Truthy(rowCca3(r)) /\ Truthy(rowCommon(r))

transformCountries(rows) ==
    IF rows.t /= "arr" THEN Throw
    ELSE LET kept == SelectSeq(rows.l, keepCountryRow)
         IN  IF \E i \in 1..Len(kept) : rowCca3(kept[i]).t /= "str" THEN Throw
             ELSE Arr(sortByName(
                    [i \in 1..Len(kept) |->
                        Ref(Str(toUpperCase(rowCca3(kept[i]).s)), rowCommon(kept[i]))]))

(***************************************************************************)
(* The languages transform (lines 73-83).  A row's languages object is     *)
(* [t |-> "obj", entries |-> <<[code, name], ..>>], its properties in the  *)
(* order Object.entries lists them; the Map is the sequence of its         *)
(* [code, name] pairs in insertion order.  Throw: rows is not iterable.    *)
(***************************************************************************)
\* Object.entries(r?.languages || {})
rowLanguages(r) ==
    LET g == IF r.t = "obj" /\ "languages" \in DOMAIN r THEN r.languages ELSE Undef
    IN  IF g.t = "obj" /\ "entries" \in DOMAIN g THEN g.entries ELSE <<>>

\* lines 77-79 with map.set on every accepted pair: the last name wins
addLanguageLastWins(map, e) ==
    LET c == toLowerCase(e.code)
    IN  IF ~isLang3(c) THEN map
        ELSE IF \E i \in 1..Len(map) : map[i].code = c
             THEN [i \in 1..Len(map) |->
                     IF map[i].code = c THEN [code |-> c, name |-> e.name] ELSE map[i]]
        ELSE Append(map, [code |-> c, name |-> e.name])

\* lines 77-79
addLanguage(map, e) ==
    LET c == toLowerCase(e.code)
    IN  IF ~isLang3(c) THEN map
        ELSE IF \E i \in 1..Len(map) : map[i].code = c THEN map
        ELSE Append(map, [code |-> c, name |-> e.name])

RECURSIVE addLanguages(_, _)
addLanguages(map, entries) ==
    IF entries = <<>> THEN map
    ELSE addLanguages(addLanguage(map, Head(entries)), Tail(entries))

RECURSIVE collectLanguages(_, _)
collectLanguages(map, rows) ==
    IF rows = <<>> THEN map
    ELSE collectLanguages(addLanguages(map, rowLanguages(Head(rows))), Tail(rows))

\* for (const r of rows): an array yields its elements, a string its
\* characters; anything else the model uses is not iterable
iterate(rows) ==
    IF rows.t = "arr" THEN rows.l
    ELSE [i \in 1..Len(rows.s) |-> Str(<<rows.s[i]>>)]

transformLanguages(rows) ==
    IF rows.t \notin {"arr", "str"} THEN Throw
    ELSE LET map == collectLanguages(<<>>, iterate(rows))
         IN  Arr(sortByName([i \in 1..Len(map) |->
                                Ref(Str(map[i].code), map[i].name)]))

transform(d, rows) ==
    IF d = "countries" THEN transformCountries(rows) ELSE transformLanguages(rows)

stub(d) == IF d = "countries" THEN countriesStub ELSE languagesStub

(***************************************************************************)
(* Bounds and the inputs the environment supplies                          *)
(***************************************************************************)
MaxCodeLen  == 4
MaxRows     == 2
MaxTicks    == 2

Strings(chars, n) == UNION {[1..k -> chars] : k \in 0..n}

\* ---- form inputs: language and country texts up to MaxCodeLen characters
LangTexts    == {Undef} \cup {Str(s) : s \in Strings({"E", " "}, MaxCodeLen)}
CountryTexts == {Undef} \cup {Str(s) : s \in Strings({"u", " "}, MaxCodeLen)}
NameTexts    == {Str(<<>>), Str(<<" ", "\t">>), Str(<<" ", "x", " ", "\t", "x", " ">>)}
EventTexts   == {Undef, Str(<<"y">>), Num(7)}
DateTexts    == {Undef, Str(<<"-">>),
                 Str(<<"2", "0", "2", "4", "-", "0", "9", "-", "0", "1">>)}

\* ---- remote rows: { cca3, name: { common } } and { languages: { code: name } }
CRow(code, common) ==
    [t |-> "obj", cca3 |-> code, name |-> [t |-> "obj", common |-> common]]
LRow(entries) ==
    [t |-> "obj", languages |-> [t |-> "obj", entries |-> entries]]

\* a lowercase 3-letter code, a 2-letter code, a row with no name
CountryRows ==
    { CRow(Str(<<"u", "s", "a">>), Str(<<"B">>)),
      CRow(Str(<<"F", "R">>), Str(<<"A">>)),
      [t |-> "obj", cca3 |-> Str(<<"D", "E", "U">>)] }

\* one language; a second name for it under the uppercase code, a 2-letter
\* code and another language; a row with no languages
LanguageRows ==
    { LRow(<<[code |-> <<"e", "n", "g">>, name |-> Str(<<"G">>)]>>),
      LRow(<<[code |-> <<"E", "N", "G">>, name |-> Str(<<"A">>)],
             [code |-> <<"e", "n">>, name |-> Str(<<"S">>)],
             [code |-> <<"f", "r", "a">>, name |-> Str(<<"F">>)]>>),
      [t |-> "obj"] }

\* what res.json() can give: Throw (the body is no JSON), a JSON string, an
\* object such as an error report, or an array of up to MaxRows rows
NonArrayBodies ==
    {Throw, Str(<<"o", "o", "p", "s">>), [t |-> "obj", message |-> Str(<<"x">>)]}

CountryBodies ==
    NonArrayBodies \cup {Arr(l) : l \in UNION {[1..k -> CountryRows] : k \in 0..MaxRows}}

LanguageBodies ==
    NonArrayBodies \cup {Arr(l) : l \in UNION {[1..k -> LanguageRows] : k \in 0..MaxRows}}

Bodies(d) == IF d = "countries" THEN CountryBodies ELSE LanguageBodies

\* transform(d, body) of every payload the environment supplies, computed once
Transformed ==
    [d \in Datasets |-> [body \in Bodies(d) \ {Throw} |-> transform(d, body)]]

\* ---- what localStorage can hold under a cache key when the page loads
sampleList(d) ==
    IF d = "countries"
    THEN Arr(<<Ref(Str(<<"U", "S", "A">>), Str(<<"B">>))>>)
    ELSE Arr(<<Ref(Str(<<"e", "n", "g">>), Str(<<"E">>))>>)

\* entries setCache wrote: a list at the model's time origin, and an empty
\* list (a response without one usable row) 1 ms before it
WrittenItems(d) ==
    { stringify(Entry(Num(0), sampleList(d))),
      stringify(Entry(Num(0 - 1), Arr(<<>>))) }

\* texts another writer left under the key
ForeignItems ==
    { Garbage,
      Json(Entry(Num(0), Str(<<>>))),
      Json(Entry(Num(0), Str(<<"x">>))) }

InitItems(d) == {NoItem} \cup WrittenItems(d) \cup ForeignItems

\* the clock advances in steps of TTL ms
TickSteps == {TTL}

(***************************************************************************)
(* The dataset pipelines fetchCountries (lines 47-63) and fetchLanguages   *)
(* (lines 66-89).  Both have the same shape:                               *)
(*     begin       getCache, the early return, the call of fetch           *)
(*     afterFetch  the fetch promise settles; res.json() is called         *)
(*     afterJson   the json promise settles; transform, setCache, return   *)
(* and a catch clause around the last two.  A call record holds            *)
(*   pc        "idle", "fetch", "json", "done" or "raised"                 *)
(*   ret       the return taken: "cached", "data" or "stub"                *)
(*   result    the value returned                                          *)
(*   cached    what getCache returned                                      *)
(*   requests  the network requests it issued                              *)
(*   wroteAt   the clock at its successful setCache, else Undef            *)
(*   status    how the fetch settled: "neterror", "ok", "notok"            *)
(*   payload   what res.json() gave: "unparsable", "rows" (an array of     *)
(*             objects) or "other"                                         *)
(*   data      the local variable data of the try block, while in scope    *)
(*   exc       the step that threw into the catch clause, or "none"        *)
(***************************************************************************)
Idle ==
    [pc |-> "idle", ret |-> "none", result |-> Undef, cached |-> Undef,
     requests |-> 0, wroteAt |-> Undef, status |-> "none",
     payload |-> "none", data |-> Undef, exc |-> "none"]

\* lines 48-52 and 67-71, down to the first await, with the early return removed
beginAlwaysFetch(item, readFails, t) ==
    [Idle EXCEPT !.cached = getCache(item, readFails, t),
                 !.pc = "fetch", !.requests = 1]

\* lines 48-52 and 67-71, down to the first await
begin(item, readFails, t) ==
    LET c == getCache(item, readFails, t)
        s == [Idle EXCEPT !.cached = c]
    IN  IF c = Throw THEN [s EXCEPT !.pc = "raised"]
        ELSE IF Truthy(c) THEN [s EXCEPT !.pc = "done", !.ret = "cached", !.result = c]
        ELSE [s EXCEPT !.pc = "fetch", !.requests = 1]

\* the catch clause with a plausible slip: an empty list instead of the stub
catchFetchEmpty(d, cl, step) ==
    [cl EXCEPT !.pc = "done", !.ret = "stub", !.result = Arr(<<>>),
               !.data = Undef, !.exc = step]

\* the catch clause rethrowing
catchFetchRethrow(d, cl, step) ==
    [cl EXCEPT !.pc = "raised", !.data = Undef, !.exc = step]

\* the catch clause (lines 60-62, 86-88)
catchFetch(d, cl, step) ==
    [cl EXCEPT !.pc = "done", !.ret = "stub", !.result = stub(d),
               !.data = Undef, !.exc = step]

\* the fetch promise settles (lines 52, 71): rejected on a network error,
\* otherwise fulfilled with a response whatever its HTTP status
afterFetch(d, cl, outcome) ==
    IF outcome = "neterror"
    THEN catchFetch(d, [cl EXCEPT !.status = outcome], "fetch")
    ELSE [cl EXCEPT !.status = outcome, !.pc = "json"]

\* "a sequence of row objects"
IsRowSeq(body) ==
    body.t = "arr" /\ \A i \in 1..Len(body.l) : body.l[i].t = "obj"

payloadKind(body) ==
    IF body = Throw THEN "unparsable" ELSE IF IsRowSeq(body) THEN "rows" ELSE "other"

\* afterJson with a setItem that is not atomic: when it throws, a part of the
\* text has been stored
afterJsonTornWrite(d, cl, body, writeFails, t, item) ==
    LET c0 == [cl EXCEPT !.payload = payloadKind(body)]
    IN  IF body = Throw THEN [call |-> catchFetch(d, c0, "json"), item |-> item]
        ELSE LET data == Transformed[d][body]
             IN  IF data = Throw
                 THEN [call |-> catchFetch(d, c0, "transform"), item |-> item]
                 ELSE IF writeFails
                 THEN [call |-> catchFetch(d, c0, "write"), item |-> Garbage]
                 ELSE [call |-> [c0 EXCEPT !.pc = "done", !.ret = "data", !.data = data,
                                           !.result = data, !.wroteAt = Num(t)],
                       item |-> setCache(data, FALSE, t)]

\* the json promise settles with body (Throw: the body is no JSON) and the rest
\* of the try block runs (lines 53-59, 72-85): [call, item], item being the
\* stored text under the pipeline's key afterwards
afterJson(d, cl, body, writeFails, t, item) ==
    LET c0 == [cl EXCEPT !.payload = payloadKind(body)]
    IN  IF body = Throw THEN [call |-> catchFetch(d, c0, "json"), item |-> item]
        ELSE LET data == Transformed[d][body]
             IN  IF data = Throw
                 THEN [call |-> catchFetch(d, c0, "transform"), item |-> item]
                 ELSE LET c1 == [c0 EXCEPT !.data = data]
                          w  == setCache(data, writeFails, t)
                      IN  IF w = Throw
                          THEN [call |-> catchFetch(d, c1, "write"), item |-> item]
                          ELSE [call |-> [c1 EXCEPT !.pc = "done", !.ret = "data",
                                                    !.result = data, !.wroteAt = Num(t)],
                                item |-> w]

MaxRuns == 2

\* payloads of at most one row
OneRowBodies(d) == {b \in Bodies(d) : b = Throw \/ (b.t = "arr" /\ Len(b.l) = 1)}

(***************************************************************************)
(* Initial states                                                          *)
(***************************************************************************)
\* the component's fields as constructed (lines 119-137)
InitForm ==
    /\ courseName = Str(<<>>) /\ langInput = Str(<<>>) /\ countryInput = Str(<<>>)
    /\ eventInput = Str(<<>>) /\ includeDate = Bool(FALSE) /\ dateInput = Str(<<>>)

InitView == phase = "editing" /\ preview = <<>> /\ previewTokens = <<>>

\* no transform is being looked at on its own
InitFn ==
    /\ payload = [d \in Datasets |-> Undef]
    /\ produced = [d \in Datasets |-> Undef]

\* no pipeline has been invoked outside loadDatasets
InitRuns == runs = <<>> /\ store0 = store

\* no normalizer has been called on its own
InitNormed == normed = [lang |-> Undef, country |-> Undef]

\* UI state of the component as constructed (lines 130-136)
InitUi ==
    /\ langOpen = FALSE /\ langActiveIdx = -1 /\ langQuery = Str(<<>>)
    /\ countryOpen = FALSE /\ countryActiveIdx = -1 /\ countryQuery = Str(<<>>)

\* no handler has run
NoEvent == [h |-> "none", key |-> "none", raised |-> FALSE]

\* nothing persisted, no handler run
InitPersist == stateItem = NoItem /\ saved = Undef /\ event = NoEvent

InitSide == InitNormed /\ InitUi /\ InitPersist

InitAux == InitFn /\ InitRuns /\ InitSide

InitApp ==
    /\ now = 0 /\ ticks = 0
    /\ call = [d \in Datasets |-> Idle]
    /\ langs = Arr(<<>>) /\ countries = Arr(<<>>)
    /\ loadPc = "idle"

Init ==
    /\ InitForm /\ InitView /\ InitApp
    /\ \E ci \in InitItems("countries"), li \in InitItems("languages") :
          store = [k \in CacheKeys |-> IF k = cacheKey("countries") THEN ci ELSE li]
    /\ InitAux

\* the form as the user has filled it in
InitCompose ==
    /\ courseName \in NameTexts /\ langInput \in LangTexts
    /\ countryInput \in CountryTexts /\ eventInput \in EventTexts
    /\ includeDate \in {Bool(TRUE), Bool(FALSE)} /\ dateInput \in DateTexts
    /\ InitView /\ InitApp
    /\ store = [k \in CacheKeys |-> NoItem]
    /\ InitAux

(***************************************************************************)
(* Actions                                                                 *)
(***************************************************************************)
\* the preview getter (lines 160-169)
Render ==
    /\ phase = "editing"
    /\ LET r == composeName(previewInput)
       IN  /\ phase' = IF r.threw THEN "threw" ELSE "rendered"
           /\ preview' = r.out
           /\ previewTokens' = r.tokens
    /\ UNCHANGED <<formVars, clockVars, store, call, appVars, auxVars>>

\* loadDatasets up to its await (lines 196-202): both pipelines run to their
\* first await
LoadStart ==
    /\ loadPc = "idle"
    /\ \E readFails \in [Datasets -> BOOLEAN] :
          call' = [d \in Datasets |-> begin(store[cacheKey(d)], readFails[d], now)]
    /\ loadPc' = "loading"
    /\ UNCHANGED <<formVars, viewVars, clockVars, store, langs, countries, auxVars>>

FetchSettle(d) ==
    /\ call[d].pc = "fetch"
    /\ \E outcome \in {"neterror", "ok", "notok"} :
          call' = [call EXCEPT ![d] = afterFetch(d, call[d], outcome)]
    /\ UNCHANGED <<formVars, viewVars, clockVars, store, appVars, auxVars>>

JsonSettle(d) ==
    /\ call[d].pc = "json"
    /\ \E body \in Bodies(d), writeFails \in BOOLEAN :
          LET r == afterJson(d, call[d], body, writeFails, now, store[cacheKey(d)])
          IN  /\ call' = [call EXCEPT ![d] = r.call]
              /\ store' = [store EXCEPT ![cacheKey(d)] = r.item]
    /\ UNCHANGED <<formVars, viewVars, clockVars, appVars, auxVars>>

\* Promise.all settles (lines 199-211): fulfilled when both pipelines have
\* returned, rejected as soon as one has thrown
LoadFinish ==
    /\ loadPc = "loading"
    /\ (\E d \in Datasets : call[d].pc = "raised")
          \/ (\A d \in Datasets : call[d].pc = "done")
    /\ IF \E d \in Datasets : call[d].pc = "raised"
       THEN langs' = languagesStub /\ countries' = countriesStub
       ELSE langs' = call["languages"].result /\ countries' = call["countries"].result
    /\ loadPc' = "done"
    /\ UNCHANGED <<formVars, viewVars, clockVars, store, call, auxVars>>

\* time passes between two steps
Tick ==
    /\ ticks < MaxTicks
    /\ \E dt \in TickSteps : now' = now + dt
    /\ ticks' = ticks + 1
    /\ UNCHANGED <<formVars, viewVars, store, call, appVars, auxVars>>

Next ==
    \/ LoadStart
    \/ \E d \in Datasets : FetchSettle(d)
    \/ \E d \in Datasets : JsonSettle(d)
    \/ LoadFinish
    \/ Tick

Spec == Init /\ [][Next]_vars

NextCompose == Render

SpecCompose == InitCompose /\ [][NextCompose]_vars

(***************************************************************************)
(* The two transforms on their own: each is applied once to a payload      *)
(***************************************************************************)
\* rows = await res.json() has given an array or another JSON value
InitTransform ==
    /\ InitForm /\ InitView /\ InitApp
    /\ store = [k \in CacheKeys |-> NoItem]
    /\ payload \in [Datasets -> CountryBodies \cup LanguageBodies]
    /\ \A d \in Datasets : payload[d] \in Bodies(d) \ {Throw}
    /\ produced = [d \in Datasets |-> Undef]
    /\ InitRuns /\ InitSide

\* lines 54-57 (countries) and 73-83 (languages)
Transform(d) ==
    /\ produced[d] = Undef
    /\ produced' = [produced EXCEPT ![d] = transform(d, payload[d])]
    /\ UNCHANGED <<formVars, viewVars, clockVars, store, call, appVars, payload,
                   runVars, sideVars>>

NextTransform == \E d \in Datasets : Transform(d)

SpecTransform == InitTransform /\ [][NextTransform]_vars

(***************************************************************************)
(* Properties of the composer, checked under SpecCompose                   *)
(***************************************************************************)

\* C1: composeName returns the non-empty ones among clean(name), the locale
\* token, clean(event) and the compact date (the date only when includeDate
\* is true), in that order, joined by " - "; an empty token leaves no slot
\* and no doubled separator, and the result is '' when all are empty.
C1_TokensInOrder ==
    phase = "rendered" =>
        LET slots == << clean(courseName).s,
                        localeToken(normLang(langInput).s, normCountry(countryInput).s),
                        clean(eventInput).s,
                        IF includeDate = Bool(TRUE) THEN yyyymmdd(dateInput).s ELSE <<>> >>
            kept  == SelectSeq(slots, LAMBDA x : x /= <<>>)
        IN  /\ previewTokens = kept
            /\ preview = join(kept, <<" ", "-", " ">>)
            /\ (kept = <<>>) => (preview = <<>>)
            /\ \A i \in 1..Len(previewTokens) : previewTokens[i] /= <<>>

\* C1 case: a name and an event around a locale that normalizes to empty and
\* a date that is switched off
C1_Witness ==
    /\ phase = "rendered"
    /\ clean(courseName).s /= <<>>
    /\ localeToken(normLang(langInput).s, normCountry(countryInput).s) = <<>>
    /\ langInput /= Undef /\ langInput.s /= <<>>
    /\ includeDate = Bool(FALSE) /\ dateInput /= Undef /\ dateInput.s /= <<>>
    /\ preview = <<"x", " ", "x", " ", "-", " ", "y">>

\* C2: the locale token is l-c when the language normalizes to l and the
\* country to c, the one normalized value with no hyphen when exactly one of
\* them is a valid code, and absent when neither is; an invalid code never
\* appears in it.
C2_LocaleToken ==
    phase = "rendered" =>
        LET lt == IF langInput = Undef THEN <<>> ELSE toLowerCase(trim(langInput.s))
            ct == IF countryInput = Undef THEN <<>> ELSE toUpperCase(trim(countryInput.s))
            l  == IF isLang3(lt) THEN lt ELSE <<>>
            c  == IF isCountry3(ct) THEN ct ELSE <<>>
            before == IF clean(courseName).s /= <<>> THEN 1 ELSE 0
            after  == (IF clean(eventInput).s /= <<>> THEN 1 ELSE 0)
                      + (IF includeDate = Bool(TRUE) /\ yyyymmdd(dateInput).s /= <<>>
                         THEN 1 ELSE 0)
        IN  IF l = <<>> /\ c = <<>>
            THEN Len(previewTokens) = before + after
            ELSE /\ Len(previewTokens) = before + 1 + after
                 /\ previewTokens[before + 1] =
                       (IF l /= <<>> /\ c /= <<>> THEN l \o <<"-">> \o c
                        ELSE IF l /= <<>> THEN l ELSE c)

\* C2 case: an invalid language (four letters) beside a valid country typed
\* in lowercase with a space before it: the token is the country alone
C2_Witness ==
    /\ phase = "rendered"
    /\ langInput = Str(<<"E", "E", "E", "E">>)
    /\ countryInput = Str(<<" ", "u", "u", "u">>)
    /\ clean(courseName).s = <<>>
    /\ previewTokens[1] = <<"U", "U", "U">>

(***************************************************************************)
(* Properties of the cache and the dataset pipelines, checked under Spec   *)
(***************************************************************************)

\* C3: when the cache misses and the fetch, the json, the transform or the
\* write step throws, the pipeline returns its built-in 10-entry list, and
\* the text stored under its key stays what it was: no step of an invocation
\* that does not return fetched data changes it, and the step that enters
\* the catch clause changes no key at all.
C3_StaticFallback ==
    [][\A d \in Datasets :
          /\ call'[d].exc /= "none" =>
                /\ ~Truthy(call'[d].cached) /\ call'[d].requests = 1
                /\ call'[d].pc = "done" /\ call'[d].ret = "stub"
                /\ call'[d].result = stub(d)
                /\ Len(call'[d].result.l) = 10
                /\ call'[d].wroteAt = Undef
                /\ call[d].exc = "none" => store' = store
          /\ call'[d].ret /= "data" => store'[cacheKey(d)] = store[cacheKey(d)]
      ]_vars

\* C3 case: the countries request failed on the network, setItem threw in
\* the languages pipeline, and both keys are still absent
C3_Witness ==
    /\ call["countries"].exc = "fetch" /\ call["countries"].status = "neterror"
    /\ call["languages"].exc = "write" /\ call["languages"].payload = "rows"
    /\ \A d \in Datasets : call[d].result = stub(d) /\ store[cacheKey(d)] = NoItem

\* C4: a response that is a non-success response, or whose payload is not a
\* sequence of row objects, makes the pipeline return the static list and
\* write nothing.
C4_FetchErrorFallsBack ==
    \A d \in Datasets :
        ( /\ call[d].pc = "done"
          /\ call[d].status = "notok" \/ call[d].payload \in {"unparsable", "other"} )
        => call[d].ret = "stub" /\ call[d].wroteAt = Undef

C6_WriteThrough ==
    [][\A d \in Datasets :
          call'[d].ret = "data" =>
             /\ ~Truthy(call'[d].cached) /\ call'[d].requests = 1
             /\ call'[d].result.t = "arr"
             /\ call'[d].pc = "done"
             /\ store'[cacheKey(d)] = Json(Entry(call'[d].wroteAt, call'[d].result))
             /\ call[d].ret /= "data" =>
                   /\ call'[d].wroteAt = Num(now)
                   /\ \E body \in Bodies(d) \ {Throw} :
                         call'[d].result = Transformed[d][body]
      ]_vars

\* C6 case: after an unparsable text under the key, a two-entry list fetched
\* and written at time TTL
C6_Witness ==
    \E d \in Datasets :
        /\ call[d].ret = "data" /\ call[d].cached = Null
        /\ Len(call[d].result.l) = 2
        /\ call[d].wroteAt = Num(TTL) /\ now = TTL
        /\ store[cacheKey(d)] = Json(Entry(Num(TTL), call[d].result))

\* C7: after setCache(k, X) at time w and no later write, getCache(k) returns
\* X while now - w <= TTL and null once now - w > TTL; the entry written is
\* the same whatever the key held before.
C7_RoundTripAndExpiry ==
    \A d \in Datasets :
        call[d].ret = "data" =>
            LET X       == call[d].result
                w       == call[d].wroteAt.n
                got     == getCache(store[cacheKey(d)], FALSE, now)
            IN  /\ store[cacheKey(d)] = setCache(X, FALSE, w)
                /\ (now - w <= TTL) => (got = X)
                /\ (now - w > TTL) => (got = Null)

\* C7 case: at time 2 * TTL the countries entry written at 0 has expired and
\* the languages entry written at TTL, exactly TTL ago, is still returned
C7_Witness ==
    /\ now = 2 * TTL
    /\ call["countries"].ret = "data" /\ call["countries"].wroteAt = Num(0)
    /\ call["languages"].ret = "data" /\ call["languages"].wroteAt = Num(TTL)
    /\ call["languages"].result.l /= <<>>
    /\ getCache(store[cacheKey("countries")], FALSE, now) = Null
    /\ getCache(store[cacheKey("languages")], FALSE, now) = call["languages"].result

C9_GetCacheNeverRaises ==
    /\ \A k \in CacheKeys, readFails \in BOOLEAN :
          LET x == store[k]
              r == getCache(x, readFails, now)
          IN  /\ r /= Throw
              /\ ( \/ readFails
                   \/ x = NoItem
                   \/ x = Garbage
                   \/ (x.k = "json" /\ tsOf(x.v).t = "num" /\ now - tsOf(x.v).n > TTL) )
                 => r = Null
    /\ \A d \in Datasets :
          /\ call[d].cached /= Throw /\ call[d].pc /= "raised"
          /\ (call[d].pc /= "idle" /\ call[d].cached = Null) => call[d].requests = 1

\* C9 case: the countries pipeline has read an unparsable text and the
\* languages pipeline an entry written 2 * TTL ago; both took a miss
C9_Witness ==
    /\ now = 2 * TTL
    /\ store[cacheKey("countries")] = Garbage
    /\ store[cacheKey("languages")] = Json(Entry(Num(0), sampleList("languages")))
    /\ \A d \in Datasets : call[d].cached = Null /\ call[d].pc = "fetch"

\* C10: every entry of the countries list the remote-fetch step produces has
\* a code of exactly three uppercase letters and a non-empty name.
C10_CountryCodes ==
    call["countries"].ret = "data" =>
        \A i \in 1..Len(call["countries"].result.l) :
            LET e == call["countries"].result.l[i]
            IN  /\ e.code.t = "str" /\ isCountry3(e.code.s)
                /\ e.name.t = "str" /\ e.name.s /= <<>>

\* C11: in every list the remote-fetch step of either pipeline produces, no
\* two entries have the same code.
C11_CodeIsUniqueKey ==
    \A d \in Datasets :
        call[d].ret = "data" =>
            \A i, j \in 1..Len(call[d].result.l) :
                call[d].result.l[i].code = call[d].result.l[j].code => i = j

(***************************************************************************)
(* Pipelines invoked repeatedly and overlapping (lines 47-89): any caller   *)
(* may invoke fetchCountries or fetchLanguages while earlier invocations    *)
(* are still at an await.  getItem works here; every other outcome varies.  *)
(* A run records its dataset d, its call record cl, and what it was given:  *)
(* the clock at its getCache (t0), how its fetch settled (outcome), its     *)
(* payload (body), whether setItem threw (wf) and the clock then (t1); and  *)
(* how many earlier invocations were at an await when it began (inflight).  *)
(***************************************************************************)
InitRetry ==
    /\ InitForm /\ InitView /\ InitApp /\ InitFn
    /\ \E ci \in {NoItem, stringify(Entry(Num(0), sampleList("countries")))},
          li \in {NoItem, stringify(Entry(Num(0), sampleList("languages")))} :
          store = [k \in CacheKeys |-> IF k = cacheKey("countries") THEN ci ELSE li]
    /\ InitRuns /\ InitSide

\* a call of fetchCountries() or fetchLanguages(), down to its first await
Invoke(d) ==
    /\ Len(runs) < MaxRuns
    /\ runs' = Append(runs, [d |-> d, cl |-> begin(store[cacheKey(d)], FALSE, now),
                             t0 |-> now, outcome |-> "none", body |-> Undef,
                             wf |-> FALSE, t1 |-> now,
                             inflight |-> Cardinality({i \in 1..Len(runs) :
                                                         runs[i].cl.pc /= "done"})])
    /\ UNCHANGED <<formVars, viewVars, clockVars, store, call, appVars, fnVars, store0,
                   sideVars>>

RunFetchSettle(i) ==
    /\ runs[i].cl.pc = "fetch"
    /\ \E outcome \in {"neterror", "ok"} :
          runs' = [runs EXCEPT ![i].cl = afterFetch(runs[i].d, runs[i].cl, outcome),
                               ![i].outcome = outcome]
    /\ UNCHANGED <<formVars, viewVars, clockVars, store, call, appVars, fnVars, store0,
                   sideVars>>

\* setCache is reached when the payload parsed and the transform returned
reachesSetCache(d, body) == body /= Throw /\ Transformed[d][body] /= Throw

RunJsonSettle(i) ==
    /\ runs[i].cl.pc = "json"
    /\ \E body \in OneRowBodies(runs[i].d), wf \in BOOLEAN :
          /\ wf => reachesSetCache(runs[i].d, body)
          /\ LET d == runs[i].d
                 r == afterJson(d, runs[i].cl, body, wf, now, store[cacheKey(d)])
             IN  /\ runs' = [runs EXCEPT ![i].cl = r.call, ![i].body = body,
                                         ![i].wf = wf, ![i].t1 = now]
                 /\ store' = [store EXCEPT ![cacheKey(d)] = r.item]
    /\ UNCHANGED <<formVars, viewVars, clockVars, call, appVars, fnVars, store0,
                   sideVars>>

\* the clock advances by TTL, seven days, while no invocation is at an await:
\* no request stays open that long
TickRetry ==
    /\ ticks < MaxTicks
    /\ \A i \in 1..Len(runs) : runs[i].cl.pc = "done"
    /\ \E dt \in TickSteps : now' = now + dt
    /\ ticks' = ticks + 1
    /\ UNCHANGED <<formVars, viewVars, store, call, appVars, auxVars>>

NextRetry ==
    \/ \E d \in Datasets : Invoke(d)
    \/ \E i \in 1..Len(runs) : RunFetchSettle(i)
    \/ \E i \in 1..Len(runs) : RunJsonSettle(i)
    \/ TickRetry

SpecRetry == InitRetry /\ [][NextRetry]_vars

\* the run r alone, from its getCache to its return, on the store st and with
\* what r was given: its call record at the end and the store afterwards
replay(st, r) ==
    LET k  == cacheKey(r.d)
        c0 == begin(st[k], FALSE, r.t0)
    IN  IF c0.pc /= "fetch" THEN [cl |-> c0, store |-> st]
        ELSE LET c1 == afterFetch(r.d, c0, r.outcome)
             IN  IF c1.pc /= "json" THEN [cl |-> c1, store |-> st]
                 ELSE LET x == afterJson(r.d, c1, r.body, r.wf, r.t1, st[k])
                      IN  [cl |-> x.call, store |-> [st EXCEPT ![k] = x.item]]

(***************************************************************************)
(* Properties of the transforms, checked under SpecTransform               *)
(***************************************************************************)

\* C12: the languages transform takes the (code, name) pairs in row order,
\* accepts a pair only if its lowercased code is three letters a-z, yields
\* one entry per accepted code, named by the first pair with that code, and
\* returns the entries sorted ascending by name.
C12_LanguagesTransform ==
    LET body == payload["languages"]
        out  == produced["languages"]
    IN  (out /= Undef /\ IsRowSeq(body)) =>
        LET rs        == body.l
            Pos       == UNION { { <<i, j>> : j \in 1..Len(rowLanguages(rs[i])) }
                                 : i \in 1..Len(rs) }
            codeAt(p) == toLowerCase(rowLanguages(rs[p[1]])[p[2]].code)
            nameAt(p) == rowLanguages(rs[p[1]])[p[2]].name
            before(p, q) == p[1] < q[1] \/ (p[1] = q[1] /\ p[2] < q[2])
            Accepted  == { p \in Pos : /\ Len(codeAt(p)) = 3
                                       /\ \A k \in 1..3 : codeAt(p)[k] \in LowerSet }
            First     == { p \in Accepted :
                             \A q \in Accepted : codeAt(q) = codeAt(p) => ~before(q, p) }
        IN  /\ out.t = "arr"
            /\ Len(out.l) = Cardinality(First)
            /\ \A p \in First : \E i \in 1..Len(out.l) :
                  out.l[i] = Ref(Str(codeAt(p)), nameAt(p))
            /\ \A i \in 1..Len(out.l) : \E p \in First :
                  out.l[i] = Ref(Str(codeAt(p)), nameAt(p))
            /\ \A i \in 1..(Len(out.l) - 1) :
                  localeCompare(out.l[i].name.s, out.l[i + 1].name.s) <= 0

\* C12 case: eng named G in the first row; ENG (a later name for eng), en
\* (two letters) and fra named F in the second: eng keeps G, en is dropped,
\* and fra sorts before eng
C12_Witness ==
    /\ IsRowSeq(payload["languages"])
    /\ Len(payload["languages"].l) = 2
    /\ rowLanguages(payload["languages"].l[1]) =
          <<[code |-> <<"e", "n", "g">>, name |-> Str(<<"G">>)]>>
    /\ Len(rowLanguages(payload["languages"].l[2])) = 3
    /\ produced["languages"] =
          Arr(<< Ref(Str(<<"f", "r", "a">>), Str(<<"F">>)),
                 Ref(Str(<<"e", "n", "g">>), Str(<<"G">>)) >>)

(***************************************************************************)
(* Properties of repeated and overlapping invocations, under SpecRetry     *)
(***************************************************************************)

\* C13: when one fetchLanguages and one fetchCountries have run, started in
\* either order and their steps interleaved in any way, each returned what
\* it returns when the two run one after the other, in either order, from
\* the same store and with the same responses and clock readings, and the
\* store ends the same; so neither read or wrote the other's key.
C13_IndependentPipelines ==
    ( /\ Len(runs) = 2
      /\ runs[1].d /= runs[2].d
      /\ \A i \in 1..2 : runs[i].cl.pc = "done" )
    => \A i \in 1..2 :
          LET j      == 3 - i
              first  == replay(store0, runs[i])
              second == replay(first.store, runs[j])
          IN  /\ first.cl = runs[i].cl
              /\ second.cl = runs[j].cl
              /\ second.store = store
              /\ first.store[cacheKey(runs[j].d)] = store0[cacheKey(runs[j].d)]

\* C13 case: both keys absent, fetchCountries invoked while fetchLanguages
\* was at an await, and both wrote
C13_Witness ==
    /\ Len(runs) = 2
    /\ runs[1].d = "languages" /\ runs[2].d = "countries"
    /\ runs[2].inflight = 1
    /\ \A i \in 1..2 : runs[i].cl.ret = "data" /\ runs[i].cl.result.l /= <<>>
    /\ store0 = [k \in CacheKeys |-> NoItem]
    /\ \A i \in 1..2 :
          store[cacheKey(runs[i].d)] = Json(Entry(Num(0), runs[i].cl.result))

\* C14: under repeated and overlapping invocations of a pipeline, every step
\* leaves the text under each key as it was or replaces it by one whole
\* entry {ts, data}, ts the clock at that step and data the list a single
\* invocation of that key's pipeline computed from its own payload and
\* returns at that step; a step in which an invocation returns the static
\* list changes no key.
C14_SafeToRetry ==
    [][ /\ \A k \in CacheKeys :
              \/ store'[k] = store[k]
              \/ \E i \in 1..Len(runs) :
                    /\ cacheKey(runs[i].d) = k
                    /\ runs[i].cl.pc = "json"
                    /\ runs'[i].cl.ret = "data"
                    /\ runs'[i].cl.result = Transformed[runs[i].d][runs'[i].body]
                    /\ runs'[i].cl.result.t = "arr"
                    /\ store'[k] = Json(Entry(Num(now), runs'[i].cl.result))
                    /\ \A j \in 1..Len(runs) : j /= i => runs'[j] = runs[j]
        /\ \A i \in 1..Len(runs) :
              (runs[i].cl.pc /= "done" /\ runs'[i].cl.ret = "stub") => store' = store
      ]_vars

\* C14 case: two overlapping invocations of fetchCountries both fetched; the
\* one invoked second wrote first, the one invoked first wrote last and its
\* entry is the one stored
C14_Witness ==
    /\ Len(runs) = 2
    /\ \A i \in 1..2 : runs[i].d = "countries" /\ runs[i].cl.ret = "data"
    /\ runs[1].cl.result /= runs[2].cl.result
    /\ runs[1].cl.cached = Null /\ runs[2].cl.cached = Null
    /\ runs[2].inflight = 1
    /\ store[cacheKey("countries")] = Json(Entry(Num(0), runs[1].cl.result))

(***************************************************************************)
(* More properties of the composer and the normalizers                     *)
(***************************************************************************)

\* C15: composeName is total and pure: for every input record, malformed or
\* missing fields included, it returns a string without raising, leaves the
\* record unchanged and returns the same output for the same input.
C15_TotalAndPure ==
    phase /= "editing" =>
        /\ phase = "rendered"
        /\ preview = composeName(previewInput).out

(***************************************************************************)
(* The normalizers on their own (lines 93-94): normLang applied to the     *)
(* language field and normCountry to the country field, one of the two     *)
(* holding any text of up to MaxCodeLen characters.                        *)
(***************************************************************************)
NormTexts == {Undef} \cup {Str(s) : s \in Strings({"E", "n", "1", " "}, MaxCodeLen)}

\* a text one letter short of a code
ShortText == Str(<<"E", "n">>)

InitNorm ==
    /\ \E s \in NormTexts :
          \/ langInput = s /\ countryInput = ShortText
          \/ langInput = ShortText /\ countryInput = s
    /\ courseName = Str(<<>>) /\ eventInput = Str(<<>>)
    /\ includeDate = Bool(FALSE) /\ dateInput = Str(<<>>)
    /\ InitView /\ InitApp
    /\ store = [k \in CacheKeys |-> NoItem]
    /\ InitFn /\ InitRuns /\ InitNormed /\ InitUi /\ InitPersist

NormLang ==
    /\ normed.lang = Undef
    /\ normed' = [normed EXCEPT !.lang = normLang(langInput)]
    /\ UNCHANGED <<formVars, viewVars, clockVars, store, call, appVars, fnVars,
                   runVars, uiVars, persistVars, event>>

NormCountry ==
    /\ normed.country = Undef
    /\ normed' = [normed EXCEPT !.country = normCountry(countryInput)]
    /\ UNCHANGED <<formVars, viewVars, clockVars, store, call, appVars, fnVars,
                   runVars, uiVars, persistVars, event>>

NextNorm == NormLang \/ NormCountry

SpecNorm == InitNorm /\ [][NextNorm]_vars

\* the characters of a text field, none when the field is missing
textOf(v) == IF v = Undef THEN <<>> ELSE v.s

\* the places i where s is whitespace, three letters from i + 1 on, whitespace
coreAt(s) ==
    {i \in 0..Len(s) :
        /\ i + 3 <= Len(s)
        /\ \A k \in 1..Len(s) :
              IF k \in (i + 1)..(i + 3) THEN s[k] \in LowerSet \cup UpperSet
              ELSE IsWs(s[k])}

\* C16: normLang returns the trimmed, lowercased text when that is exactly
\* three letters a-z and '' otherwise; normCountry returns the trimmed,
\* uppercased text when that is exactly three letters A-Z and '' otherwise;
\* so each result is '' or a 3-letter code.
C16_Normalizers ==
    /\ normed.lang /= Undef =>
          LET s == textOf(langInput)
              r == normed.lang
          IN  /\ r /= Throw
              /\ r.s = <<>> \/ (Len(r.s) = 3 /\ \A k \in 1..3 : r.s[k] \in LowerSet)
              /\ (coreAt(s) = {}) <=> (r.s = <<>>)
              /\ \A i \in coreAt(s) :
                    \A k \in 1..3 :
                       LET c == s[i + k]
                       IN  r.s[k] = IF c \in LowerSet THEN c
                                    ELSE Lowers[CHOOSE n \in 1..26 : Uppers[n] = c]
    /\ normed.country /= Undef =>
          LET s == textOf(countryInput)
              r == normed.country
          IN  /\ r /= Throw
              /\ r.s = <<>> \/ (Len(r.s) = 3 /\ \A k \in 1..3 : r.s[k] \in UpperSet)
              /\ (coreAt(s) = {}) <=> (r.s = <<>>)
              /\ \A i \in coreAt(s) :
                    \A k \in 1..3 :
                       LET c == s[i + k]
                       IN  r.s[k] = IF c \in UpperSet THEN c
                                    ELSE Uppers[CHOOSE n \in 1..26 : Lowers[n] = c]

\* C16 case: a mixed-case language code after a space gives the lowercase
\* code, and a two-letter country text has given ''
C16_Witness ==
    /\ langInput = Str(<<" ", "E", "n", "E">>)
    /\ normed.lang = Str(<<"e", "n", "e">>)
    /\ countryInput = Str(<<"E", "n">>)
    /\ normed.country = Str(<<>>)

(***************************************************************************)
(* What getCache hands to the pipelines, checked under Spec                *)
(***************************************************************************)

\* C18: whatever text is stored under a key, a non-null value returned by
\* getCache is the data list of a stored entry that carries a timestamp;
\* for any other stored content getCache returns null, so its result is
\* always null or a list of reference entries.
C18_NullOrEntryList ==
    \A d \in Datasets :
        call[d].pc /= "idle" =>
            LET r == call[d].cached
                x == parse(store[cacheKey(d)])
            IN  \/ r = Null
                \/ /\ r.t = "arr"
                   /\ r = dataOf(x)
                   /\ tsOf(x).t = "num"

(***************************************************************************)
(* Persistence of the form (lines 214-241).  The state object saveState    *)
(* builds has the six form fields as properties; JSON.stringify leaves out *)
(* a property whose value is undefined, and reading a property the parsed  *)
(* value does not have gives undefined.                                    *)
(***************************************************************************)
FieldNames == {"courseName", "langInput", "countryInput", "eventInput",
               "includeDate", "dateInput"}

\* the six fields of the component, by name
formNow ==
    [courseName |-> courseName, langInput |-> langInput,
     countryInput |-> countryInput, eventInput |-> eventInput,
     includeDate |-> includeDate, dateInput |-> dateInput]

\* this.courseName = r.courseName; ... this.dateInput = r.dateInput
SetForm(r) ==
    /\ courseName' = r.courseName /\ langInput' = r.langInput
    /\ countryInput' = r.countryInput /\ eventInput' = r.eventInput
    /\ includeDate' = r.includeDate /\ dateInput' = r.dateInput

\* what JSON.parse gives back for JSON.stringify(state), lines 215-224
stateObject(form) ==
    [t |-> "obj",
     props |-> [f \in {g \in FieldNames : form[g] /= Undef} |-> form[f]]]

\* state.f
prop(x, f) ==
    IF x.t = "obj" /\ "props" \in DOMAIN x /\ f \in DOMAIN x.props
    THEN x.props[f] ELSE Undef

\* the '' or false after || on lines 232-237
fieldDefault(f) == IF f = "includeDate" THEN Bool(FALSE) ELSE Str(<<>>)

\* saveState(): the text stored under 'folderNameState', or Throw when
\* setItem throws (the item is then unchanged)
saveState(form, writeFails) ==
    IF writeFails THEN Throw ELSE stringify(stateObject(form))

\* the body of restoreState's try block: the six fields afterwards, or Throw
restoreStateTry(form, item, readFails) ==
    IF readFails THEN Throw
    ELSE LET state == parse(item)
         IN  IF state = Throw THEN Throw
             ELSE IF ~Truthy(state) THEN form
             ELSE [f \in FieldNames |-> OrElse(prop(state, f), fieldDefault(f))]

\* restoreState without its catch clause
restoreStateUncaught(form, item, readFails) == restoreStateTry(form, item, readFails)

\* restoreState(): the six fields afterwards
restoreState(form, item, readFails) ==
    LET r == restoreStateTry(form, item, readFails)
    IN  IF r = Throw THEN form ELSE r

(***************************************************************************)
(* Sessions: the page is loaded, init() waits for loadDatasets, calls      *)
(* restoreState and sets the default date; the user edits the form and     *)
(* the page saves it; the item may be cleared or overwritten from outside. *)
(* loadPc is the position of init(): "loading" at its await, "restoring"   *)
(* between restoreState and the default date, "done" after it.             *)
(***************************************************************************)
Today == Str(<<"2", "0", "2", "6", "-", "0", "1", "-", "0", "2">>)

\* values the user gives each field
FieldTexts(f) ==
    CASE f = "courseName"   -> {Str(<<>>), Str(<<"x">>)}
      [] f = "langInput"    -> {Str(<<>>), Str(<<"e", "n", "g">>)}
      [] f = "countryInput" -> {Str(<<>>), Str(<<"U", "S", "A">>)}
      [] f = "eventInput"   -> {Str(<<>>), Str(<<"y">>)}
      [] f = "includeDate"  -> {Bool(FALSE), Bool(TRUE)}
      [] OTHER              -> {Str(<<>>), Str(<<"2", "0", "2", "4", "-", "0", "9", "-", "0", "1">>)}

\* texts under 'folderNameState' that saveState did not write: unparsable,
\* null, a number, an object with one of the six properties
ForeignStates ==
    { Garbage, Json(Null), Json(Num(5)),
      Json([t |-> "obj", props |-> [f \in {"langInput"} |-> Str(<<"f", "r", "a">>)]]) }

InitPersistSession ==
    /\ InitForm /\ InitView
    /\ now = 0 /\ ticks = 0
    /\ call = [d \in Datasets |-> Idle]
    /\ langs = Arr(<<>>) /\ countries = Arr(<<>>)
    /\ loadPc = "loading"
    /\ store = [k \in CacheKeys |-> NoItem]
    /\ InitFn /\ InitRuns /\ InitNormed /\ InitUi
    /\ stateItem \in {NoItem} \cup ForeignStates
    /\ saved = Undef /\ event = NoEvent

\* the user changes one field (x-model)
EditField(f) ==
    /\ loadPc /= "restoring"
    /\ \E v \in FieldTexts(f) :
          /\ v /= formNow[f]
          /\ SetForm([formNow EXCEPT ![f] = v])
    /\ event' = [h |-> "edit", key |-> f, raised |-> FALSE]
    /\ UNCHANGED <<viewVars, clockVars, store, call, appVars, fnVars, runVars,
                   normed, uiVars, persistVars>>

\* saveState() (lines 214-225)
SaveState ==
    /\ loadPc /= "restoring"
    /\ \E writeFails \in BOOLEAN :
          LET w == saveState(formNow, writeFails)
          IN  /\ stateItem' = IF w = Throw THEN stateItem ELSE w
              /\ saved' = IF w = Throw THEN saved ELSE formNow
              /\ event' = [h |-> "saveState", key |-> "none", raised |-> (w = Throw)]
    /\ UNCHANGED <<formVars, viewVars, clockVars, store, call, appVars, fnVars,
                   runVars, normed, uiVars>>

\* init() from its await on to restoreState() (lines 181-184)
RestoreState ==
    /\ loadPc = "loading"
    /\ \E readFails \in BOOLEAN :
          LET r == restoreState(formNow, stateItem, readFails)
          IN  /\ SetForm(IF r = Throw THEN formNow ELSE r)
              /\ event' = [h |-> "restoreState",
                           key |-> IF readFails THEN "readFails" ELSE "none",
                           raised |-> (r = Throw)]
    /\ loadPc' = "restoring"
    /\ UNCHANGED <<viewVars, clockVars, store, call, langs, countries, fnVars,
                   runVars, normed, uiVars, persistVars>>

\* the rest of init() (lines 186-193); a raised restoreState ends init()
DefaultDate ==
    /\ loadPc = "restoring"
    /\ dateInput' = IF ~event.raised /\ ~Truthy(dateInput) THEN Today ELSE dateInput
    /\ loadPc' = "done"
    /\ event' = [h |-> "init", key |-> "none", raised |-> event.raised]
    /\ UNCHANGED <<courseName, langInput, countryInput, eventInput, includeDate,
                   viewVars, clockVars, store, call, langs, countries, fnVars,
                   runVars, normed, uiVars, persistVars>>

\* the page is loaded again: a new component, init() runs to its await
Reload ==
    /\ loadPc = "done"
    /\ SetForm([f \in FieldNames |-> fieldDefault(f)])
    /\ loadPc' = "loading"
    /\ event' = [h |-> "reload", key |-> "none", raised |-> FALSE]
    /\ UNCHANGED <<viewVars, clockVars, store, call, langs, countries, fnVars,
                   runVars, normed, uiVars, persistVars>>

\* the item is removed or overwritten from outside the page
StorageChange ==
    /\ loadPc /= "restoring"
    /\ \E item \in {NoItem} \cup ForeignStates :
          /\ item /= stateItem
          /\ stateItem' = item
    /\ saved' = Undef
    /\ event' = [h |-> "storage", key |-> "none", raised |-> FALSE]
    /\ UNCHANGED <<formVars, viewVars, clockVars, store, call, appVars, fnVars,
                   runVars, normed, uiVars>>

NextPersist ==
    \/ \E f \in FieldNames : EditField(f)
    \/ SaveState
    \/ RestoreState
    \/ DefaultDate
    \/ Reload
    \/ StorageChange

SpecPersist == InitPersistSession /\ [][NextPersist]_vars

\* C17: after saveState, a later restoreState on the same store sets the six
\* fields to the values they had when saveState ran; when no state is stored
\* or the stored text fails to parse, restoreState does not raise and leaves
\* all six fields unchanged.
C17_RoundTrip ==
    [][ (loadPc = "loading" /\ loadPc' = "restoring") =>
          /\ ~event'.raised
          /\ (saved /= Undef /\ event'.key /= "readFails") => formNow' = saved
          /\ (stateItem = NoItem \/ stateItem = Garbage \/ event'.key = "readFails")
                => formNow' = formNow ]_vars

\* C17 case: every field was filled in when saveState ran, the page was
\* loaded again, and restoreState has just put the values back
C17_Witness ==
    /\ loadPc = "restoring" /\ event.h = "restoreState" /\ event.key = "none"
    /\ saved /= Undef /\ formNow = saved
    /\ \A f \in FieldNames : Truthy(formNow[f])

(***************************************************************************)
(* The dropdowns (lines 140-158 and 243-340)                               *)
(***************************************************************************)
MaxOptions == 2

\* hay.includes(needle)
includes(hay, needle) ==
    \E i \in 0..Len(hay) :
        /\ i + Len(needle) <= Len(hay)
        /\ \A k \in 1..Len(needle) : hay[i + k] = needle[k]

\* get filteredLangs() (lines 140-148): the entries shown, in list order
filteredLangs(list, q) ==
    LET query == toLowerCase(OrElse(q, Str(<<>>)).s)
    IN  IF query = <<>> THEN list.l
        ELSE SelectSeq(list.l, LAMBDA lang :
                 \/ includes(lang.code.s, query)
                 \/ includes(toLowerCase(lang.name.s), query))

\* get filteredCountries() (lines 150-158)
filteredCountries(list, q) ==
    LET query == toLowerCase(OrElse(q, Str(<<>>)).s)
    IN  IF query = <<>> THEN list.l
        ELSE SelectSeq(list.l, LAMBDA country :
                 \/ includes(toLowerCase(country.code.s), query)
                 \/ includes(toLowerCase(country.name.s), query))

Min(a, b) == IF a < b THEN a ELSE b
Max(a, b) == IF a > b THEN a ELSE b

\* the keys the handlers distinguish
Keys == {"ArrowDown", "ArrowUp", "Enter", "Escape", "Tab"}

\* idx >= 0 && options[idx]: the index designates an entry (entries are
\* objects, hence truthy; indices are 0-based)
designates(idx, options) == idx >= 0 /\ idx + 1 <= Len(options)

\* the body of handleLangKeydown / handleCountryKeydown on the dropdown's
\* open flag and active index: the new flag and index, and whether
\* selectLang / selectCountry is called with options[idx]
keydown(open, idx, options, key) ==
    LET same == [open |-> open, idx |-> idx, select |-> FALSE]
    IN  IF ~open
        THEN IF key = "ArrowDown" THEN [same EXCEPT !.open = TRUE] ELSE same
        ELSE CASE key = "ArrowDown" ->
                    [same EXCEPT !.idx = Min(idx + 1, Len(options) - 1)]
               [] key = "ArrowUp" ->
                    [same EXCEPT !.idx = Max(idx - 1, 0)]
               [] key = "Enter" ->
                    IF designates(idx, options)
                    THEN [same EXCEPT !.open = FALSE, !.select = TRUE] ELSE same
               [] key = "Escape" ->
                    [same EXCEPT !.open = FALSE]
               [] key = "Tab" ->
                    [same EXCEPT !.open = FALSE,
                                 !.select = designates(idx, options)]
               [] OTHER -> same

\* what selectLang / selectCountry puts in the input, with a plausible slip:
\* the entry's name
selectedName(option) == option.name

\* what selectLang / selectCountry puts in the input (lines 331, 337)
selectedCode(option) == option.code

\* the lists loadDatasets assigns (lines 204-205)
UiLangs     == Arr(SubSeq(languagesStub.l, 1, MaxOptions))
UiCountries == Arr(SubSeq(countriesStub.l, 1, MaxOptions))

\* what the user types into the two pickers
LangQueries    == {Str(<<>>), Str(<<"F">>)}
CountryQueries == {Str(<<>>), Str(<<"c">>)}

\* the two getters on every list and query of the model, computed once
shownLangs ==
    [list \in {Arr(<<>>), UiLangs} |->
        [q \in LangQueries |-> filteredLangs(list, q)]]
shownCountries ==
    [list \in {Arr(<<>>), UiCountries} |->
        [q \in CountryQueries |-> filteredCountries(list, q)]]

InitUiSession ==
    /\ InitForm /\ InitView
    /\ now = 0 /\ ticks = 0
    /\ call = [d \in Datasets |-> Idle]
    /\ langs = Arr(<<>>) /\ countries = Arr(<<>>)
    /\ loadPc = "loading"
    /\ store = [k \in CacheKeys |-> NoItem]
    /\ InitFn /\ InitRuns /\ InitNormed /\ InitUi /\ InitPersist

\* handleLangKeydown(event) (lines 252-289) with selectLang (330-334) and
\* saveState (214-225); writeFails: setItem throws, which can only happen
\* when saveState is reached
HandleLangKeydown(key, writeFails) ==
    LET options == shownLangs[langs][langQuery]
        r == keydown(langOpen, langActiveIdx, options, key)
        code == selectedCode(options[langActiveIdx + 1])
        w == saveState([formNow EXCEPT !.langInput = code], writeFails)
    IN  /\ writeFails => r.select
        /\ langOpen' = r.open
        /\ langActiveIdx' = r.idx
        /\ langInput' = IF r.select THEN code ELSE langInput
        /\ stateItem' = IF r.select /\ w /= Throw THEN w ELSE stateItem
        /\ saved' = IF r.select /\ w /= Throw
                    THEN [formNow EXCEPT !.langInput = code] ELSE saved
        /\ event' = [h |-> "langKey", key |-> "none", raised |-> r.select /\ w = Throw]
        /\ UNCHANGED <<courseName, countryInput, eventInput, includeDate, dateInput,
                       viewVars, clockVars, store, call, appVars, fnVars, runVars,
                       normed, langQuery, countryOpen, countryActiveIdx, countryQuery>>

\* handleCountryKeydown(event) (lines 291-328) with selectCountry (336-340)
\* and saveState (214-225)
HandleCountryKeydown(key, writeFails) ==
    LET options == shownCountries[countries][countryQuery]
        r == keydown(countryOpen, countryActiveIdx, options, key)
        code == selectedCode(options[countryActiveIdx + 1])
        w == saveState([formNow EXCEPT !.countryInput = code], writeFails)
    IN  /\ writeFails => r.select
        /\ countryOpen' = r.open
        /\ countryActiveIdx' = r.idx
        /\ countryInput' = IF r.select THEN code ELSE countryInput
        /\ stateItem' = IF r.select /\ w /= Throw THEN w ELSE stateItem
        /\ saved' = IF r.select /\ w /= Throw
                    THEN [formNow EXCEPT !.countryInput = code] ELSE saved
        /\ event' = [h |-> "countryKey", key |-> "none", raised |-> r.select /\ w = Throw]
        /\ UNCHANGED <<courseName, langInput, eventInput, includeDate, dateInput,
                       viewVars, clockVars, store, call, appVars, fnVars, runVars,
                       normed, countryQuery, langOpen, langActiveIdx, langQuery>>

\* handleClickOutside(event) (lines 243-250); where: the element clicked
HandleClickOutside(where) ==
    /\ langOpen' = (langOpen /\ where = "langInput")
    /\ countryOpen' = (countryOpen /\ where = "countryInput")
    /\ event' = [h |-> "click", key |-> "none", raised |-> FALSE]
    /\ UNCHANGED <<formVars, viewVars, clockVars, store, call, appVars, fnVars,
                   runVars, normed, langActiveIdx, langQuery, countryActiveIdx,
                   countryQuery, persistVars>>

\* the user types in a picker: langQuery / countryQuery changes
ChangeLangQuery ==
    /\ \E q \in LangQueries : q /= langQuery /\ langQuery' = q
    /\ event' = [h |-> "query", key |-> "none", raised |-> FALSE]
    /\ UNCHANGED <<formVars, viewVars, clockVars, store, call, appVars, fnVars,
                   runVars, normed, langOpen, langActiveIdx, countryOpen,
                   countryActiveIdx, countryQuery, persistVars>>

ChangeCountryQuery ==
    /\ \E q \in CountryQueries : q /= countryQuery /\ countryQuery' = q
    /\ event' = [h |-> "query", key |-> "none", raised |-> FALSE]
    /\ UNCHANGED <<formVars, viewVars, clockVars, store, call, appVars, fnVars,
                   runVars, normed, langOpen, langActiveIdx, langQuery, countryOpen,
                   countryActiveIdx, persistVars>>

\* loadDatasets assigns the two lists (lines 204-205)
LoadLists ==
    /\ loadPc = "loading"
    /\ langs' = UiLangs /\ countries' = UiCountries
    /\ loadPc' = "done"
    /\ event' = [h |-> "load", key |-> "none", raised |-> FALSE]
    /\ UNCHANGED <<formVars, viewVars, clockVars, store, call, fnVars, runVars,
                   normed, uiVars, persistVars>>

NextUi ==
    \/ \E key \in Keys, writeFails \in BOOLEAN : HandleLangKeydown(key, writeFails)
    \/ \E key \in Keys, writeFails \in BOOLEAN : HandleCountryKeydown(key, writeFails)
    \/ \E where \in {"langInput", "countryInput", "body"} : HandleClickOutside(where)
    \/ ChangeLangQuery
    \/ ChangeCountryQuery
    \/ LoadLists

SpecUi == InitUiSession /\ [][NextUi]_vars

\* C19: after any sequence of keydown events, click-outside events, query
\* changes and dataset loads, the active index of each dropdown is between
\* -1 and the number of currently filtered options minus 1.
C19_ActiveIndexInRange ==
    /\ -1 <= langActiveIdx
    /\ langActiveIdx <= Len(filteredLangs(langs, langQuery)) - 1
    /\ -1 <= countryActiveIdx
    /\ countryActiveIdx <= Len(filteredCountries(countries, countryQuery)) - 1

====
